---- MODULE Spec2Model ----
(***************************************************************************)
(* A model of gwpy.types.array2d.Array2D: the lazily cached axis metadata  *)
(* (_y0, _dy, _yindex and, on the row axis, _x0, _dx, _xindex), the        *)
(* slicing protocol of __getitem__, yspan, value_at and _wrap_function.    *)
(*                                                                         *)
(* An attribute that may be absent (Python raises AttributeError on read)  *)
(* is a sequence of length 0 (absent) or 1 (present).  A Quantity is a     *)
(* record [value, unit]; an Index is a record [value, unit] whose value is *)
(* a sequence.  Every method is an operator from the object's attributes   *)
(* to a record [ax, ok, err, ret]: the attributes after the call, whether  *)
(* it returned, the exception it raised, and what it returned.             *)
(***************************************************************************)
EXTENDS Integers, Sequences, FiniteSets, TLC

\* Largest bare number handed to a setter or to the constructor.
MaxVal == 2
\* Largest extent of the column (y) axis and longest index handed to a setter.
MaxExtent == 3
\* The extent of the row (x) axis of the arrays that are sliced.
MaxRows == 2
\* Largest origin or step handed to the constructor of an array that is sliced.
MaxMatVal == 2
\* Largest start of a slice.
MaxStart == 1

VARIABLES shape, xaxis, yaxis, res, out

vars == <<shape, xaxis, yaxis, res, out>>

-----------------------------------------------------------------------------
(* Values *)

Absent == <<>>
Some(v) == <<v>>
Has(attr) == Len(attr) > 0
The(attr) == attr[1]

Quantity(v, u) == [value |-> v, unit |-> u]
Index(s, u) == [value |-> s, unit |-> u]

\* Arguments of the setters: None, a bare number, or a Quantity.
PyNone == [kind |-> "None", value |-> 0, unit |-> ""]
Bare(v) == [kind |-> "bare", value |-> v, unit |-> ""]
QuantityArg(v, u) == [kind |-> "Quantity", value |-> v, unit |-> u]
\* The index argument of the yindex setter: None or an array with a unit.
NoIndex == [kind |-> "None", value |-> <<>>, unit |-> ""]
IndexArg(s, u) == [kind |-> "Index", value |-> s, unit |-> u]

default_yunit == ""

\* An object on which no axis attribute has been set.
NoAxis == [y0 |-> Absent, dy |-> Absent, yindex |-> Absent]

Ret(a, r) == [ax |-> a, ok |-> TRUE, err |-> "", ret |-> r]
Raise(a, e) == [ax |-> a, ok |-> FALSE, err |-> e, ret |-> <<>>]

\* Quantity.__ne__: values in different (incompatible) units are unequal.
QuantityNe(p, q) == p.unit # q.unit \/ p.value # q.value

\* Index.regular: the consecutive differences are constant.
IsRegular(s) ==
  \A i \in 1..(Len(s) - 2) : s[i + 1] - s[i] = s[i + 2] - s[i + 1]

-----------------------------------------------------------------------------
(* Array2D properties *)

\* The value v under the name a continuation K gives it: a statement's
\* result, used by the statements after it.
Bind(v, K(_)) == K(v)

yunit(a) ==
  IF Has(a.dy) THEN The(a.dy).unit
  ELSE IF Has(a.y0) THEN The(a.y0).unit
  ELSE default_yunit

yindex_del(a) == [a EXCEPT !.yindex = Absent]

y0_del(a) == [a EXCEPT !.y0 = Absent]

dy_del(a) == [a EXCEPT !.dy = Absent]

y0_get(a) ==
  IF Has(a.y0) THEN Ret(a, The(a.y0))
  ELSE Ret([a EXCEPT !.y0 = Some(Quantity(0, yunit(a)))],
           Quantity(0, yunit(a)))

\* value as the Quantity the y0 setter stores.
y0_value(a, value) ==
  IF value.kind # "Quantity" THEN Quantity(value.value, yunit(a))
  ELSE Quantity(value.value, value.unit)

y0_set_keeps_index(a, value) ==
  IF value.kind = "None" THEN Ret(y0_del(a), <<>>)
  ELSE Ret([a EXCEPT !.y0 = Some(y0_value(a, value))], <<>>)

y0_set(a, value) ==
  IF value.kind = "None" THEN Ret(y0_del(a), <<>>)
  ELSE Ret([(IF ~Has(a.y0) THEN yindex_del(a)
             ELSE IF QuantityNe(y0_value(a, value), The(a.y0))
                  THEN yindex_del(a)
             ELSE a) EXCEPT !.y0 = Some(y0_value(a, value))], <<>>)

dy_get(a) ==
  IF Has(a.dy) THEN Ret(a, The(a.dy))
  ELSE IF ~Has(a.yindex)
       THEN Ret([a EXCEPT !.dy = Some(Quantity(1, yunit(a)))],
                Quantity(1, yunit(a)))
       ELSE LET ix == The(a.yindex)
            IN IF ~IsRegular(ix.value) THEN Raise(a, "AttributeError")
               ELSE IF Len(ix.value) < 2 THEN Raise(a, "IndexError")
               ELSE LET q == Quantity(ix.value[2] - ix.value[1], ix.unit)
                    IN Ret([a EXCEPT !.dy = Some(q)], q)

\* value as the Quantity the dy setter stores.
dy_value(a, value) ==
  IF value.kind # "Quantity" THEN Quantity(value.value, yunit(a))
  ELSE Quantity(value.value, value.unit)

dy_set_always_invalidates(a, value) ==
  IF value.kind = "None" THEN Ret(dy_del(a), <<>>)
  ELSE IF value.kind # "Quantity" /\ yunit(a) # ""
       THEN Raise(a, "UnitConversionError")
  ELSE Ret([yindex_del(a) EXCEPT !.dy = Some(dy_value(a, value))], <<>>)

dy_set(a, value) ==
  IF value.kind = "None" THEN Ret(dy_del(a), <<>>)
  ELSE IF value.kind # "Quantity" /\ yunit(a) # ""
       THEN Raise(a, "UnitConversionError")
  ELSE Ret([(IF ~Has(a.dy) THEN yindex_del(a)
             ELSE IF QuantityNe(dy_value(a, value), The(a.dy))
                  THEN yindex_del(a)
             ELSE a) EXCEPT !.dy = Some(dy_value(a, value))], <<>>)

\* y0 + arange(n) * dy
Arange(o, d, n) == [i \in 1..n |-> o + (i - 1) * d]

\* The getter of an axis of extent n.
yindex_get(a, n) ==
  IF Has(a.yindex) THEN Ret(a, The(a.yindex))
  ELSE Bind(y0_get(a), LAMBDA r0 :
       Bind(dy_get(r0.ax), LAMBDA r1 :
         IF ~r1.ok THEN r1
         ELSE IF r0.ret.unit # r1.ret.unit
              THEN Raise(r1.ax, "UnitConversionError")
         ELSE Bind(Index(Arange(r0.ret.value, r1.ret.value, n), r0.ret.unit),
                   LAMBDA ix : Ret([r1.ax EXCEPT !.yindex = Some(ix)], ix))))

yindex_set_keeps_step(a, index) ==
  IF index.kind = "None" THEN Ret(yindex_del(a), <<>>)
  ELSE IF Len(index.value) < 1 THEN Raise(a, "IndexError")
  ELSE Bind(y0_set(a, QuantityArg(index.value[1], index.unit)), LAMBDA r0 :
         IF IsRegular(index.value)
         THEN IF Len(index.value) < 2 THEN Raise(r0.ax, "IndexError")
              ELSE Bind(dy_set(r0.ax,
                               QuantityArg(index.value[2] - index.value[1],
                                           index.unit)), LAMBDA r1 :
                     Ret([r1.ax EXCEPT
                            !.yindex = Some(Index(index.value, index.unit))],
                         <<>>))
         ELSE Ret([r0.ax EXCEPT
                     !.yindex = Some(Index(index.value, index.unit))], <<>>))

yindex_set(a, index) ==
  IF index.kind = "None" THEN Ret(yindex_del(a), <<>>)
  ELSE IF Len(index.value) < 1 THEN Raise(a, "IndexError")
  ELSE Bind(y0_set(a, QuantityArg(index.value[1], index.unit)), LAMBDA r0 :
         IF IsRegular(index.value)
         THEN IF Len(index.value) < 2 THEN Raise(r0.ax, "IndexError")
              ELSE Bind(dy_set(r0.ax,
                               QuantityArg(index.value[2] - index.value[1],
                                           index.unit)), LAMBDA r1 :
                     Ret([r1.ax EXCEPT
                            !.yindex = Some(Index(index.value, index.unit))],
                         <<>>))
         ELSE Ret([dy_del(r0.ax) EXCEPT
                     !.yindex = Some(Index(index.value, index.unit))], <<>>))

\* Segment(lo, hi) of the segments collaborator, for lo <= hi.
Segment(lo, hi) == <<lo, hi>>

yspan(a, n) ==
  IF ~Has(a.yindex)
  THEN Bind(y0_get(a), LAMBDA r0 :
         IF r0.ret.unit # yunit(r0.ax)
         THEN Raise(r0.ax, "UnitConversionError")
         ELSE Bind(dy_get(r0.ax), LAMBDA r1 :
                IF r1.ret.unit # yunit(r1.ax)
                THEN Raise(r1.ax, "UnitConversionError")
                ELSE Ret(r1.ax, Segment(r0.ret.value,
                                        r0.ret.value + n * r1.ret.value))))
  ELSE IF Len(The(a.yindex).value) < 2 THEN Raise(a, "IndexError")
  ELSE Bind(dy_get(a), LAMBDA r1 :
         IF ~r1.ok THEN r1
         ELSE LET s == The(a.yindex).value
              IN Ret(r1.ax, Segment(s[1], s[Len(s)] + r1.ret.value)))

-----------------------------------------------------------------------------
(* Construction *)

\* The unit __new__ gives the axis: the yunit argument is overwritten.
new_yunit(y0, dy) ==
  IF dy.kind = "Quantity" THEN dy.unit
  ELSE IF y0.kind = "Quantity" THEN y0.unit
  ELSE default_yunit

array2d_new_index_first(y0, dy, yindex, yunitArg) ==
  Bind(IF yindex.kind # "None" THEN yindex_set(NoAxis, yindex)
       ELSE Ret(NoAxis, <<>>), LAMBDA r0 :
  Bind(IF dy.kind # "None"
       THEN dy_set(r0.ax, QuantityArg(dy.value, new_yunit(y0, dy)))
       ELSE r0, LAMBDA r1 :
    IF ~r0.ok THEN r0
    ELSE IF y0.kind # "None"
         THEN y0_set(r1.ax, QuantityArg(y0.value, new_yunit(y0, dy)))
         ELSE r1))

\* Array2D.__new__ on raw data.
array2d_new(y0, dy, yindex, yunitArg) ==
  Bind(IF dy.kind # "None"
       THEN dy_set(NoAxis, QuantityArg(dy.value, new_yunit(y0, dy)))
       ELSE Ret(NoAxis, <<>>), LAMBDA r1 :
  Bind(IF y0.kind # "None"
       THEN IF y0.kind = "Quantity" /\ y0.unit # new_yunit(y0, dy)
            THEN Raise(r1.ax, "UnitConversionError")
            ELSE y0_set(r1.ax, QuantityArg(y0.value, new_yunit(y0, dy)))
       ELSE r1, LAMBDA r2 :
    IF ~r2.ok THEN r2
    ELSE IF yindex.kind # "None" THEN yindex_set(r2.ax, yindex)
    ELSE r2))

-----------------------------------------------------------------------------
(* The row axis: the properties Array2D inherits from Series *)

x0_get(a) == y0_get(a)
dx_get(a) == dy_get(a)
x0_set(a, value) == y0_set(a, value)
dx_set(a, value) == dy_set(a, value)
xindex_get(a, n) == yindex_get(a, n)
xindex_set(a, index) == yindex_set(a, index)

\* Series.__new__, which Array2D.__new__ calls for the row axis and
\* _wrap_function for the vector it returns.
series_new(x0, dx, xindex) == array2d_new(x0, dx, xindex, PyNone)

-----------------------------------------------------------------------------
(* Slicing *)

Min(a, b) == IF a < b THEN a ELSE b
Max(a, b) == IF a > b THEN a ELSE b

\* The components of an index expression: an integer, a slice whose start,
\* stop and step may each be absent, or nothing (a one-component expression).
IntAt(i) == [kind |-> "int", i |-> i, start |-> Absent, stop |-> Absent,
             step |-> Absent]
Slice(start, stop, step) ==
  [kind |-> "slice", i |-> 0, start |-> start, stop |-> stop, step |-> step]
NoComponent == [kind |-> "none", i |-> 0, start |-> Absent, stop |-> Absent,
                step |-> Absent]

Truthy(attr) == Has(attr) /\ The(attr) # 0

\* The positions (from 0) a slice with a positive step selects on an extent n.
Clip(n, bound, dflt) ==
  IF ~Has(bound) THEN dflt
  ELSE IF The(bound) < 0 THEN Max(n + The(bound), 0)
  ELSE Min(The(bound), n)

SlicePositions(n, sl) ==
  LET k == IF Has(sl.step) THEN The(sl.step) ELSE 1
      lo == Clip(n, sl.start, 0)
      hi == Clip(n, sl.stop, n)
      len == IF hi > lo THEN (hi - lo + k - 1) \div k ELSE 0
  IN [j \in 1..len |-> lo + (j - 1) * k]

\* index[y] for an Index and a slice y, as the argument of an index setter.
SliceIndex(ix, sl) ==
  IndexArg([j \in 1..Len(SlicePositions(Len(ix.value), sl)) |->
              ix.value[SlicePositions(Len(ix.value), sl)[j] + 1]], ix.unit)

\* The extent a component leaves of an axis of extent n (0 for an integer).
Extent(n, c) ==
  IF c.kind = "int" THEN 0
  ELSE IF c.kind = "slice" THEN Len(SlicePositions(n, c))
  ELSE n

InBounds(n, c) == c.kind # "int" \/ (0 <= c.i /\ c.i < n)

\* The element of the data array at row i, column j (from 0): the arrays
\* hold their own positions, so that distinct elements are distinct.
Buffer(sh, i, j) == i * sh[2] + j

\* Lines 168-169: the origin of the new array moves by start * step.
range_start(a, c) ==
  IF ~Truthy(c.start) THEN Ret(a, <<>>)
  ELSE Bind(y0_get(a), LAMBDA g0 :
       Bind(dy_get(g0.ax), LAMBDA g1 :
         IF ~g1.ok THEN g1
         ELSE IF g0.ret.unit # g1.ret.unit
              THEN Raise(g1.ax, "UnitConversionError")
         ELSE y0_set(g1.ax, QuantityArg(g0.ret.value
                                        + The(c.start) * g1.ret.value,
                                        g0.ret.unit))))

\* Lines 170-171: the step of the new array is multiplied by the slice's.
range_step(a, c) ==
  IF ~Truthy(c.step) THEN Ret(a, <<>>)
  ELSE Bind(dy_get(a), LAMBDA g1 :
         IF ~g1.ok THEN g1
         ELSE dy_set(g1.ax, QuantityArg(g1.ret.value * The(c.step),
                                        g1.ret.unit)))

range_adjust(a, c) ==
  Bind(range_start(a, c), LAMBDA r0 :
    IF ~r0.ok THEN r0 ELSE range_step(r0.ax, c))

\* The row axis of a sliced array: the same adjustment without a cached
\* index; with one, the cached index is sliced.
slice_axis(a, c) ==
  IF c.kind # "slice" THEN Ret(a, <<>>)
  ELSE IF ~Has(a.yindex) THEN range_adjust(a, c)
  ELSE xindex_set(a, SliceIndex(The(a.yindex), c))

\* The shape of self[x, y].
SlicedShape(sh, x, y) ==
  IF x.kind = "int" /\ y.kind = "int" THEN <<>>
  ELSE IF x.kind = "int" THEN <<Extent(sh[2], y)>>
  ELSE IF y.kind = "int" THEN <<Extent(sh[1], x)>>
  ELSE <<Extent(sh[1], x), Extent(sh[2], y)>>

\* Series.__getitem__ on an Array2D: the sliced data as a view that carries
\* copies of the source's attributes, the row axis already sliced.
series_getitem(self, x, y) ==
  IF ~InBounds(self.shape[1], x) \/ ~InBounds(self.shape[2], y)
  THEN [ok |-> FALSE, err |-> "IndexError", xaxis |-> self.xaxis,
        yaxis |-> self.yaxis, shape |-> <<>>]
  ELSE Bind(slice_axis(self.xaxis, x), LAMBDA rx :
         [ok |-> rx.ok, err |-> rx.err, xaxis |-> rx.ax,
          yaxis |-> self.yaxis, shape |-> SlicedShape(self.shape, x, y)])

NoResult == [kind |-> "none", xaxis |-> NoAxis, yaxis |-> NoAxis,
             shape |-> <<>>, value |-> 0]
Failed(self, e) ==
  [self |-> self, ok |-> FALSE, err |-> e, res |-> NoResult]
Returned(self, r) ==
  [self |-> self, ok |-> TRUE, err |-> "", res |-> r]
SeriesResult(a, sh) ==
  [kind |-> "Series", xaxis |-> a, yaxis |-> NoAxis, shape |-> sh, value |-> 0]
Array2DResult(ax, ay, sh) ==
  [kind |-> "Array2D", xaxis |-> ax, yaxis |-> ay, shape |-> sh, value |-> 0]
QuantityResult(v) ==
  [kind |-> "Quantity", xaxis |-> NoAxis, yaxis |-> NoAxis, shape |-> <<>>,
   value |-> v]

AsArg(q) == QuantityArg(q.value, q.unit)

\* Lines 142-148: the view of a one-dimensional result.  A row (x an
\* integer) becomes a _columnclass whose dx and x0 are the source's dy and y0.
getitem_unwrap(self, view, x) ==
  IF x.kind # "int"
  THEN Returned(self, SeriesResult(view.xaxis, view.shape))
  ELSE Bind(dy_get(self.yaxis), LAMBDA g1 :
         IF ~g1.ok THEN Failed([self EXCEPT !.yaxis = g1.ax], g1.err)
         ELSE Bind(dx_set(view.xaxis, AsArg(g1.ret)), LAMBDA s1 :
              Bind(y0_get(g1.ax), LAMBDA g0 :
              Bind(x0_set(s1.ax, AsArg(g0.ret)), LAMBDA s0 :
                Returned([self EXCEPT !.yaxis = g0.ax],
                         SeriesResult(s0.ax, view.shape))))))

\* Lines 158-159: new.x0 = self.x0 + y.start * self.dx
getitem_series_start(self, series, y) ==
  IF ~Truthy(y.start) THEN Returned(self, series)
  ELSE Bind(x0_get(self.xaxis), LAMBDA g0 :
       Bind(dx_get(g0.ax), LAMBDA g1 :
         IF g0.ret.unit # g1.ret.unit
         THEN Failed([self EXCEPT !.xaxis = g1.ax], "UnitConversionError")
         ELSE Bind(x0_set(series.xaxis,
                          QuantityArg(g0.ret.value
                                      + The(y.start) * g1.ret.value,
                                      g0.ret.unit)), LAMBDA s0 :
                Returned([self EXCEPT !.xaxis = g1.ax],
                         SeriesResult(s0.ax, series.shape)))))

\* Lines 160-161: new.dx = self.dx * y.step
getitem_series_step(self, series, y) ==
  IF ~Truthy(y.step) THEN Returned(self, series)
  ELSE Bind(dx_get(self.xaxis), LAMBDA g1 :
       Bind(dx_set(series.xaxis, QuantityArg(g1.ret.value * The(y.step),
                                             g1.ret.unit)), LAMBDA s1 :
         Returned([self EXCEPT !.xaxis = g1.ax],
                  SeriesResult(s1.ax, series.shape))))

\* Lines 154-163: the range of a one-dimensional result.
getitem_series_range(self, series, y) ==
  IF ~Has(self.xaxis.yindex)
  THEN Bind(getitem_series_start(self, series, y), LAMBDA r0 :
         IF ~r0.ok THEN r0 ELSE getitem_series_step(r0.self, r0.res, y))
  ELSE Bind(xindex_set(series.xaxis, SliceIndex(The(self.xaxis.yindex), y)),
            LAMBDA s :
         IF ~s.ok THEN Failed(self, s.err)
         ELSE Returned(self, SeriesResult(s.ax, series.shape)))

\* Lines 164-173: the column range of a two-dimensional result.
getitem_array_range(self, view, y) ==
  Bind(IF ~Has(self.yaxis.yindex) THEN range_adjust(view.yaxis, y)
       ELSE yindex_set(view.yaxis, SliceIndex(The(self.yaxis.yindex), y)),
       LAMBDA s :
    IF ~s.ok THEN Failed(self, s.err)
    ELSE Returned(self, Array2DResult(view.xaxis, s.ax, view.shape)))

\* Lines 141-174, for a view of one or two dimensions.
getitem_view(self, view, x, y) ==
  IF Len(view.shape) = 1
  THEN Bind(getitem_unwrap(self, view, x), LAMBDA u :
         IF ~u.ok THEN u
         ELSE IF y.kind = "slice" THEN getitem_series_range(u.self, u.res, y)
         ELSE u)
  ELSE IF y.kind = "slice" THEN getitem_array_range(self, view, y)
  ELSE Returned(self, Array2DResult(view.xaxis, view.yaxis, view.shape))

\* Array2D.__getitem__((x, y)), or __getitem__(x) when y is no component.
getitem(self, x, y) ==
  Bind(series_getitem(self, x, y), LAMBDA view :
    IF ~view.ok THEN Failed(self, view.err)
    ELSE IF Len(view.shape) = 0
         THEN Returned(self, QuantityResult(Buffer(self.shape, x.i, y.i)))
    ELSE getitem_view(self, view, x, y))

-----------------------------------------------------------------------------
(* Array2D methods *)

\* The positions (from 1) of the index values equal to v.
Matches(s, v) == {i \in 1..Len(s) : s[i] = v}
First(S) == CHOOSE i \in S : \A j \in S : i <= j

XNotFound == "Value %r not found in array xindex"
YNotFound == "Value %r not found in array yindex"

value_at_search_nearest(self, xs, ys, x, y) ==
  getitem(self,
          IntAt(IF Matches(xs, x) = {} THEN 0 ELSE First(Matches(xs, x)) - 1),
          IntAt(IF Matches(ys, y) = {} THEN 0 ELSE First(Matches(ys, y)) - 1))

\* Lines 363-373: the search of the two materialized indexes.
value_at_search(self, xs, ys, x, y) ==
  IF Matches(xs, x) = {} THEN Failed(self, XNotFound)
  ELSE IF Matches(ys, y) = {} THEN Failed(self, YNotFound)
  ELSE getitem(self, IntAt(First(Matches(xs, x)) - 1),
                     IntAt(First(Matches(ys, y)) - 1))

\* value_at(x, y) for bare numbers x and y.
value_at(self, x, y) ==
  Bind(xindex_get(self.xaxis, self.shape[1]), LAMBDA gx :
    IF ~gx.ok THEN Failed([self EXCEPT !.xaxis = gx.ax], gx.err)
    ELSE Bind(yindex_get(self.yaxis, self.shape[2]), LAMBDA gy :
           IF ~gy.ok
           THEN Failed([self EXCEPT !.xaxis = gx.ax, !.yaxis = gy.ax], gy.err)
           ELSE value_at_search([self EXCEPT !.xaxis = gx.ax,
                                             !.yaxis = gy.ax],
                                gx.ret.value, gy.ret.value, x, y)))

AsIndexArg(attr) ==
  IF Has(attr) THEN IndexArg(The(attr).value, The(attr).unit) ELSE NoIndex

\* Lines 392-394: the Series of the reduced data.
wrap_series(self, g0, g1, indexAttr, n) ==
  IF ~g1.ok THEN Failed(self, g1.err)
  ELSE Bind(series_new(AsArg(g0.ret), AsArg(g1.ret), AsIndexArg(indexAttr)),
            LAMBDA r :
         IF ~r.ok THEN Failed(self, r.err)
         ELSE Returned(self, SeriesResult(r.ax, <<n>>)))

\* _wrap_function(function, axis) for a function that reduces the array
\* along axis 0 or 1 to one dimension.
wrap_function(self, axis) ==
  IF axis = 0
  THEN Bind(y0_get(self.yaxis), LAMBDA g0 :
       Bind(dy_get(g0.ax), LAMBDA g1 :
         wrap_series([self EXCEPT !.yaxis = g1.ax], g0, g1, g1.ax.yindex,
                     self.shape[2])))
  ELSE Bind(x0_get(self.xaxis), LAMBDA g0 :
       Bind(dx_get(g0.ax), LAMBDA g1 :
         wrap_series([self EXCEPT !.xaxis = g1.ax], g0, g1, g1.ax.yindex,
                     self.shape[1])))

-----------------------------------------------------------------------------
(* Inputs *)

Vals == 0..MaxVal
BareArgs == {Bare(v) : v \in Vals}
ValueArgs == BareArgs \cup {PyNone}
\* Index arrays handed to the setter: coordinates in ascending order.
Ascending(s) == \A i \in 1..(Len(s) - 1) : s[i] <= s[i + 1]
Seqs == UNION {{s \in [1..n -> Vals] : Ascending(s)} : n \in 1..MaxExtent}
IndexArgs == {IndexArg(s, default_yunit) : s \in Seqs}
\* One row is enough to exercise the column axis on its own.
RowShapes == {1} \X (1..MaxExtent)

\* The arrays that are sliced: the numbers their constructor is handed, the
\* index expressions and the coordinates looked up.
MatArgs == {PyNone} \cup {Bare(v) : v \in 1..MaxMatVal}
MatSeqs(n) == {s \in [1..n -> 1..MaxMatVal] : Ascending(s)}
MatShapes == {MaxRows} \X (1..MaxExtent)
Starts == {Absent} \cup {Some(i) : i \in (-1)..MaxStart}
Stops == {Absent, Some(MaxStart + 1)}
Steps == {Absent, Some(2)}
\* A slice carries a stop or a step next to its start.
Slices ==
  {Slice(a, b, Absent) : a \in Starts, b \in Stops}
    \cup {Slice(a, Absent, k) : a \in Starts, k \in Steps}
\* The first row, the last row, a row out of range, or every row.
XComponents(n) ==
  {IntAt(0), IntAt(n - 1), IntAt(n)} \cup {Slice(Absent, Absent, Absent)}
YComponents(n) ==
  {NoComponent} \cup {IntAt(j) : j \in 0..(n - 1)} \cup Slices
LookupVals == 0..(MaxMatVal + 1)

\* What a client sees of a call: its name and argument, whether it returned,
\* the exception or the value, and whether a y index was cached when it began.
Outcome(op, arg, r, had) ==
  [op |-> op, arg |-> arg, ok |-> r.ok, err |-> r.err, ret |-> r.ret,
   had |-> had]

-----------------------------------------------------------------------------
(* The column axis of one array: every call a client can make on it *)

\* The state after Array2D(data, y0=.., dy=.., yindex=..): a construction that
\* raised leaves no object, and nothing can be called on it.
Init ==
  /\ shape \in RowShapes
  /\ xaxis = NoAxis
  /\ res = NoResult
  /\ \E y0 \in ValueArgs, dy \in ValueArgs, yindex \in IndexArgs \cup {NoIndex} :
        LET r == array2d_new(y0, dy, yindex, PyNone)
        IN /\ yaxis = r.ax
           /\ out = Outcome("new", [y0 |-> y0, dy |-> dy, yindex |-> yindex], r,
                          FALSE)

Built == ~(out.op = "new" /\ ~out.ok)

SetOrigin(value) ==
  /\ Built
  /\ LET r == y0_set(yaxis, value)
     IN /\ yaxis' = r.ax
        /\ out' = Outcome("setOrigin", value, r, Has(yaxis.yindex))
        /\ UNCHANGED <<shape, xaxis, res>>

SetStep(value) ==
  /\ Built
  /\ LET r == dy_set(yaxis, value)
     IN /\ yaxis' = r.ax
        /\ out' = Outcome("setStep", value, r, Has(yaxis.yindex))
        /\ UNCHANGED <<shape, xaxis, res>>

SetIndex(index) ==
  /\ Built
  /\ LET r == yindex_set(yaxis, index)
     IN /\ yaxis' = r.ax
        /\ out' = Outcome("setIndex", index, r, Has(yaxis.yindex))
        /\ UNCHANGED <<shape, xaxis, res>>

GetOrigin ==
  /\ Built
  /\ LET r == y0_get(yaxis)
     IN /\ yaxis' = r.ax
        /\ out' = Outcome("getOrigin", <<>>, r, Has(yaxis.yindex))
        /\ UNCHANGED <<shape, xaxis, res>>

GetStep ==
  /\ Built
  /\ LET r == dy_get(yaxis)
     IN /\ yaxis' = r.ax
        /\ out' = Outcome("getStep", <<>>, r, Has(yaxis.yindex))
        /\ UNCHANGED <<shape, xaxis, res>>

GetIndex ==
  /\ Built
  /\ LET r == yindex_get(yaxis, shape[2])
     IN /\ yaxis' = r.ax
        /\ out' = Outcome("getIndex", <<>>, r, Has(yaxis.yindex))
        /\ UNCHANGED <<shape, xaxis, res>>

\* array.yindex = array.yindex
RoundTrip ==
  /\ Built
  /\ LET g == yindex_get(yaxis, shape[2])
         r == IF g.ok THEN yindex_set(g.ax, IndexArg(g.ret.value, g.ret.unit))
              ELSE g
     IN /\ yaxis' = r.ax
        /\ out' = Outcome("roundTrip", <<>>, r, Has(yaxis.yindex))
        /\ UNCHANGED <<shape, xaxis, res>>

Span ==
  /\ Built
  /\ LET r == yspan(yaxis, shape[2])
     IN /\ yaxis' = r.ax
        /\ out' = Outcome("span", <<>>, r, Has(yaxis.yindex))
        /\ UNCHANGED <<shape, xaxis, res>>

Next ==
  \/ \E value \in ValueArgs : SetOrigin(value)
  \/ \E value \in ValueArgs : SetStep(value)
  \/ \E index \in IndexArgs \cup {NoIndex} : SetIndex(index)
  \/ GetOrigin
  \/ GetStep
  \/ GetIndex
  \/ RoundTrip
  \/ Span

Spec == Init /\ [][Next]_vars

\* The axis driven by number-valued setOrigin/setStep and getIndex alone.
InitRegular ==
  /\ shape \in RowShapes
  /\ xaxis = NoAxis
  /\ res = NoResult
  /\ \E y0 \in ValueArgs, dy \in ValueArgs :
        LET r == array2d_new(y0, dy, NoIndex, PyNone)
        IN /\ yaxis = r.ax
           /\ out = Outcome("new", [y0 |-> y0, dy |-> dy, yindex |-> NoIndex],
                            r, FALSE)

NextRegular ==
  \/ \E value \in BareArgs : SetOrigin(value)
  \/ \E value \in BareArgs : SetStep(value)
  \/ GetIndex
  \/ Span

SpecRegular == InitRegular /\ [][NextRegular]_vars

-----------------------------------------------------------------------------
(* One array and the result the client holds of it: slicing, lookup and
   reduction *)

Self == [shape |-> shape, xaxis |-> xaxis, yaxis |-> yaxis]

InitMatrix ==
  /\ shape \in MatShapes
  /\ res = NoResult
  /\ \E x0 \in MatArgs, dx \in {PyNone, Bare(MaxMatVal)} :
        xaxis = series_new(x0, dx, NoIndex).ax
  /\ \E y0 \in MatArgs, dy \in MatArgs,
        yindex \in {NoIndex} \cup {IndexArg(s, default_yunit) :
                                    s \in MatSeqs(shape[2])} :
        /\ yindex.kind = "Index" => (y0 = PyNone /\ dy = PyNone)
        /\ LET r == array2d_new(y0, dy, yindex, PyNone)
           IN /\ r.ok
              /\ yaxis = r.ax
              /\ out = Outcome("new", [y0 |-> y0, dy |-> dy,
                                       yindex |-> yindex], r, FALSE)

Holding == res.kind # "none"

XGetIndex ==
  /\ ~Holding
  /\ LET r == xindex_get(xaxis, shape[1])
     IN /\ xaxis' = r.ax
        /\ out' = Outcome("getXIndex", <<>>, r, Has(yaxis.yindex))
        /\ UNCHANGED <<shape, yaxis, res>>

YGetIndex ==
  /\ ~Holding
  /\ GetIndex

Apply(op, arg, r) ==
  /\ xaxis' = r.self.xaxis
  /\ yaxis' = r.self.yaxis
  /\ res' = IF r.ok THEN r.res
            ELSE [NoResult EXCEPT !.kind = "error"]
  /\ out' = Outcome(op, arg, [ok |-> r.ok, err |-> r.err, ret |-> <<>>],
                    Has(yaxis.yindex))
  /\ UNCHANGED shape

GetItem(x, y) ==
  /\ ~Holding
  /\ Apply("getitem", [x |-> x, y |-> y], getitem(Self, x, y))

ValueAt(x, y) ==
  /\ ~Holding
  /\ Apply("valueAt", [x |-> x, y |-> y], value_at(Self, x, y))

Reduce(axis) ==
  /\ ~Holding
  /\ Apply("reduce", [axis |-> axis], wrap_function(Self, axis))

\* The client drops the result.
Release ==
  /\ Holding
  /\ res' = NoResult
  /\ out' = [op |-> "release", arg |-> <<>>, ok |-> TRUE, err |-> "",
             ret |-> <<>>, had |-> Has(yaxis.yindex)]
  /\ UNCHANGED <<shape, xaxis, yaxis>>

NextMatrix ==
  \/ XGetIndex
  \/ YGetIndex
  \/ \E x \in XComponents(shape[1]), y \in YComponents(shape[2]) : GetItem(x, y)
  \/ \E x \in LookupVals, y \in LookupVals : ValueAt(x, y)
  \/ \E axis \in {0, 1} : Reduce(axis)
  \/ Release

SpecMatrix == InitMatrix /\ [][NextMatrix]_vars

-----------------------------------------------------------------------------
(* One array whose column axis carries units: construction with a yunit,
   unit-tagged setter values, and slices of the array *)

\* The dimensionless unit and one that no bare number converts to.
Units == {default_yunit, "m"}
UnitArgs ==
  ValueArgs \cup {QuantityArg(v, "m") : v \in Vals}
\* Index arrays of two coordinates, dimensionless or unit-tagged.
UnitIndexArgs ==
  {NoIndex} \cup {IndexArg(s, u) : s \in {q \in Seqs : Len(q) = 2}, u \in Units}
UnitShapes == {<<1, 2>>}
\* The yunit argument of the constructor: absent, or a unit.
YunitArgs == {Absent, Some("m")}
\* A row, a row with the columns from the second on, every row with the same
\* columns, or one element.
UnitItems ==
  {<<IntAt(0), NoComponent>>,
   <<IntAt(0), Slice(Some(1), Absent, Absent)>>,
   <<Slice(Absent, Absent, Absent), Slice(Some(1), Absent, Absent)>>,
   <<IntAt(0), IntAt(0)>>}

InitUnits ==
  /\ shape \in UnitShapes
  /\ xaxis = NoAxis
  /\ res = NoResult
  /\ \E y0 \in UnitArgs, dy \in UnitArgs, yunitArg \in YunitArgs :
        LET r == array2d_new(y0, dy, NoIndex, yunitArg)
        IN /\ yaxis = r.ax
           /\ out = Outcome("new", [y0 |-> y0, dy |-> dy, yindex |-> NoIndex,
                                    yunit |-> yunitArg], r, FALSE)

USetOrigin(value) == ~Holding /\ SetOrigin(value)
USetStep(value) == ~Holding /\ SetStep(value)
USetIndex(index) == ~Holding /\ SetIndex(index)
UGetOrigin == ~Holding /\ GetOrigin
UGetStep == ~Holding /\ GetStep
UGetIndex == ~Holding /\ GetIndex
UGetItem(x, y) == Built /\ GetItem(x, y)

NextUnits ==
  \/ \E value \in UnitArgs : USetOrigin(value)
  \/ \E value \in UnitArgs : USetStep(value)
  \/ \E index \in UnitIndexArgs : USetIndex(index)
  \/ UGetOrigin
  \/ UGetStep
  \/ UGetIndex
  \/ \E item \in UnitItems : UGetItem(item[1], item[2])
  \/ Release

SpecUnits == InitUnits /\ [][NextUnits]_vars

-----------------------------------------------------------------------------
(* Observables *)

ny == shape[2]
Origin(a) == y0_get(a).ret.value
StepOk(a) == dy_get(a).ok
StepOf(a) == dy_get(a).ret.value
IndexOk(a) == yindex_get(a, ny).ok
IndexOf(a) == yindex_get(a, ny).ret.value
Arithmetic(o, d, n) == [i \in 1..n |-> o + (i - 1) * d]
Cached(a) == Has(a.yindex)
Irregular(a) == Cached(a) /\ ~IsRegular(The(a.yindex).value)

-----------------------------------------------------------------------------
(* C1 *)

ChangesOrigin(a, value) ==
  value.kind # "None" /\ Origin(a) # value.value
ChangesStep(a, value) ==
  value.kind # "None" /\ (~StepOk(a) \/ StepOf(a) # value.value)

\* C1: with an index cached on the y axis, a setOrigin(v) with v different
\* from the current origin, or a setStep(d) with d different from the current
\* step, discards the cache: the next getIndex() is origin + i*step of the new
\* values.
C1_SetterDiscardsCachedIndex ==
  [][ ( /\ Cached(yaxis)
        /\ \/ out'.op = "setOrigin" /\ ChangesOrigin(yaxis, out'.arg)
           \/ out'.op = "setStep" /\ ChangesStep(yaxis, out'.arg) )
      => /\ out'.ok
         /\ IndexOk(yaxis')
         /\ StepOk(yaxis')
         /\ IndexOf(yaxis') = Arithmetic(Origin(yaxis'), StepOf(yaxis'), ny)
    ]_vars

C1_Witness ==
  /\ out.op = "setOrigin"
  /\ out.had
  /\ out.arg.kind = "bare"
  /\ ~Cached(yaxis)
  /\ Origin(yaxis) = out.arg.value

-----------------------------------------------------------------------------
(* C2 *)

RegularAxis(a) == ~Irregular(a) /\ StepOk(a)

\* C2: on regular axes, self[i, a:b] with a row i and a column range a:b is
\* a vector over the column axis: its origin is colOrigin + a*colStep and its
\* step colStep, whatever the row axis's origin and step are.
C2_RowSliceInheritsColumnAxis ==
  [][ ( /\ out'.op = "getitem"
        /\ out'.arg.x.kind = "int"
        /\ out'.arg.x.i < shape[1]
        /\ out'.arg.y.kind = "slice"
        /\ ~Has(out'.arg.y.step)
        /\ Has(out'.arg.y.start)
        /\ The(out'.arg.y.start) \in 0..(ny - 1)
        /\ RegularAxis(xaxis)
        /\ RegularAxis(yaxis) )
      => /\ out'.ok
         /\ res'.kind = "Series"
         /\ Origin(res'.xaxis)
              = Origin(yaxis) + The(out'.arg.y.start) * StepOf(yaxis)
         /\ StepOk(res'.xaxis)
         /\ StepOf(res'.xaxis) = StepOf(yaxis)
    ]_vars

-----------------------------------------------------------------------------
(* C3 *)

\* The axis as setIndex(s) with an irregular s leaves it: getStep() fails with
\* the irregular-axis error, getOrigin() is the stored s[0].
IrregularHeld(a) ==
  /\ Irregular(a)
  /\ ~StepOk(a)
  /\ dy_get(a).err = "AttributeError"
  /\ Has(a.y0)
  /\ Origin(a) = The(a.yindex).value[1]

\* A call that changes no value of the axis: a getter, or a setter handed the
\* value that is stored.
Quiet(a, o) ==
  \/ o.op \in {"getOrigin", "getStep", "getIndex", "span", "roundTrip"}
  \/ /\ o.op = "setOrigin"
     /\ o.arg.kind = "bare"
     /\ Has(a.y0)
     /\ o.arg.value = The(a.y0).value
  \/ /\ o.op = "setIndex"
     /\ o.arg.kind = "Index"
     /\ Cached(a)
     /\ o.arg.value = The(a.yindex).value

\* C3: after setIndex(s) with an irregular s, getStep() fails with the
\* irregular-axis error and getOrigin() is s[0], until a setter changes a value.
C3_IrregularIndexHasNoStep ==
  [][ /\ ( /\ out'.op = "setIndex"
           /\ out'.arg.kind = "Index"
           /\ ~IsRegular(out'.arg.value) )
         => /\ out'.ok
            /\ IrregularHeld(yaxis')
            /\ The(yaxis'.yindex).value = out'.arg.value
      /\ (IrregularHeld(yaxis) /\ Quiet(yaxis, out'))
         => IrregularHeld(yaxis') /\ yaxis'.yindex = yaxis.yindex
    ]_vars

C3_Witness ==
  /\ out.op = "getStep"
  /\ ~out.ok
  /\ out.err = "AttributeError"
  /\ Irregular(yaxis)
  /\ Origin(yaxis) = The(yaxis.yindex).value[1]

-----------------------------------------------------------------------------
(* C4 *)

\* C4: span() on a cached irregular index returns
\* [index[0], index[last] + (index[last] - index[last-1])).
C4_SpanOfIrregularIndex ==
  (out.op = "span" /\ Irregular(yaxis))
  => LET s == The(yaxis.yindex).value
     IN /\ out.ok
        /\ out.ret = Segment(s[1], s[Len(s)] + (s[Len(s)] - s[Len(s) - 1]))

-----------------------------------------------------------------------------
(* C5 *)

\* C5: on a regular y axis of extent n span() returns
\* [origin, origin + n*step) of the current origin and step.
C5_SpanOfRegularAxis ==
  out.op = "span"
  => /\ out.ok
     /\ out.ret = Segment(Origin(yaxis), Origin(yaxis) + ny * StepOf(yaxis))

-----------------------------------------------------------------------------
(* C6 *)

\* C6: an index whose length differs from the extent is refused by setIndex
\* and by the constructor, so a cached index has the length of the extent.
C6_IndexLengthIsExtent ==
  /\ ( /\ out.op = "setIndex"
       /\ out.arg.kind = "Index"
       /\ Len(out.arg.value) # ny ) => ~out.ok
  /\ ( /\ out.op = "new"
       /\ out.arg.yindex.kind = "Index"
       /\ Len(out.arg.yindex.value) # ny ) => ~out.ok
  /\ (Built /\ Cached(yaxis)) => Len(The(yaxis.yindex).value) = ny

-----------------------------------------------------------------------------
(* C7 *)

\* C7: constructed with a yindex next to y0 and dy, the array has that index,
\* its first element as origin, and its first difference as step when it is
\* regular and no step when it is not, whatever y0 and dy were.
C7_ConstructorIndexPrecedence ==
  ( /\ out.op = "new"
    /\ out.arg.yindex.kind = "Index"
    /\ Len(out.arg.yindex.value) >= 2 )
  => LET s == out.arg.yindex.value
     IN /\ out.ok
        /\ Cached(yaxis)
        /\ The(yaxis.yindex).value = s
        /\ Origin(yaxis) = s[1]
        /\ IsRegular(s) => (StepOk(yaxis) /\ StepOf(yaxis) = s[2] - s[1])
        /\ ~IsRegular(s) => (~StepOk(yaxis)
                             /\ dy_get(yaxis).err = "AttributeError")

C7_Witness ==
  /\ out.op = "new"
  /\ out.ok
  /\ out.arg.yindex.kind = "Index"
  /\ out.arg.y0.kind = "bare"
  /\ out.arg.dy.kind = "bare"
  /\ Len(out.arg.yindex.value) >= 2
  /\ out.arg.y0.value # out.arg.yindex.value[1]
  /\ out.arg.dy.value # out.arg.yindex.value[2] - out.arg.yindex.value[1]
  /\ The(yaxis.yindex).value = out.arg.yindex.value

-----------------------------------------------------------------------------
(* C8 *)

\* The positions (from 0) of the grid of an axis of extent n that carry v.
GridPositions(a, n, v) == {i \in 0..(n - 1) : Origin(a) + i * StepOf(a) = v}

\* C8: on regular axes of non-zero step, valueAt(x, y) returns buffer[i][j]
\* when x = rowOrigin + i*rowStep and y = colOrigin + j*colStep with i and j
\* in range, and fails with the coordinate-not-found error of the first
\* coordinate that is on no grid point.
C8_ValueAtExactMatch ==
  [][ ( /\ out'.op = "valueAt"
        /\ RegularAxis(xaxis)
        /\ RegularAxis(yaxis)
        /\ StepOf(xaxis) # 0
        /\ StepOf(yaxis) # 0 )
      => LET I == GridPositions(xaxis, shape[1], out'.arg.x)
             J == GridPositions(yaxis, shape[2], out'.arg.y)
         IN /\ (I # {} /\ J # {})
               => /\ out'.ok
                  /\ res'.kind = "Quantity"
                  /\ \E i \in I, j \in J : res'.value = Buffer(shape, i, j)
            /\ I = {} => (~out'.ok /\ out'.err = XNotFound)
            /\ (I # {} /\ J = {}) => (~out'.ok /\ out'.err = YNotFound)
    ]_vars

C8_Witness ==
  /\ out.op = "valueAt"
  /\ out.ok
  /\ res.kind = "Quantity"
  /\ StepOf(xaxis) > 1
  /\ StepOf(yaxis) > 1
  /\ out.arg.x = Origin(xaxis) + StepOf(xaxis)
  /\ out.arg.y = Origin(yaxis) + StepOf(yaxis)
  /\ res.value = Buffer(shape, 1, 1)

-----------------------------------------------------------------------------
(* C9 *)

\* C9: a materialized index is origin + i*step, and array.yindex =
\* array.yindex on it returns and leaves origin, step and index as they were.
C9_IndexRoundTrip ==
  [][ /\ (out'.op = "getIndex" /\ ~Cached(yaxis) /\ out'.ok)
         => /\ StepOk(yaxis')
            /\ out'.ret.value
                 = Arithmetic(Origin(yaxis'), StepOf(yaxis'), ny)
      /\ (out'.op = "roundTrip" /\ ~Cached(yaxis) /\ IndexOk(yaxis))
         => /\ out'.ok
            /\ Origin(yaxis') = Origin(yaxis)
            /\ StepOk(yaxis')
            /\ StepOf(yaxis') = StepOf(yaxis)
            /\ IndexOk(yaxis')
            /\ IndexOf(yaxis') = IndexOf(yaxis)
    ]_vars

-----------------------------------------------------------------------------
(* C10 *)

\* The axis that survives a reduction along axis, and its extent.
Surviving(axis) == IF axis = 0 THEN yaxis ELSE xaxis
SurvivingExtent(axis) == IF axis = 0 THEN shape[2] ELSE shape[1]

\* C10: a reduction along one axis returns, in every state of the surviving
\* axis, a vector with the origin and step of that axis and, when its index is
\* cached, that index.
C10_ReductionInheritsAxis ==
  [][ ( /\ out'.op = "reduce"
        /\ SurvivingExtent(out'.arg.axis) >= 2 )
      => LET a == Surviving(out'.arg.axis)
         IN /\ out'.ok
            /\ res'.kind = "Series"
            /\ Origin(res'.xaxis) = Origin(a)
            /\ StepOk(a) => (StepOk(res'.xaxis)
                             /\ StepOf(res'.xaxis) = StepOf(a))
            /\ Cached(a) => (Cached(res'.xaxis)
                             /\ res'.xaxis.yindex = a.yindex)
    ]_vars

-----------------------------------------------------------------------------
(* C11 *)

\* C11: constructed with a yunit and with y0 and dy absent or bare numbers,
\* the array's y axis has that unit: origin and step are expressed in it.
C11_ExplicitUnitIsKept ==
  ( /\ out.op = "new"
    /\ Has(out.arg.yunit)
    /\ out.arg.y0.kind # "Quantity"
    /\ out.arg.dy.kind # "Quantity" )
  => /\ out.ok
     /\ yunit(yaxis) = The(out.arg.yunit)
     /\ y0_get(yaxis).ret.unit = The(out.arg.yunit)
     /\ dy_get(yaxis).ok
     /\ dy_get(yaxis).ret.unit = The(out.arg.yunit)

-----------------------------------------------------------------------------
(* C12 *)

\* What a client observes of an axis of extent n: getOrigin(), getStep() or
\* its failure, getIndex() or its failure, and the resolved unit.
Observed(a, n) ==
  [origin |-> y0_get(a).ret,
   step |-> IF dy_get(a).ok THEN Some(dy_get(a).ret) ELSE Some(dy_get(a).err),
   index |-> IF yindex_get(a, n).ok THEN Some(yindex_get(a, n).ret)
             ELSE Some(yindex_get(a, n).err),
   unit |-> yunit(a)]

\* C12: a slice leaves the source as it was: what is observed of its row and
\* column axes after self[item] is what was observed before it.
C12_SliceLeavesSource ==
  [][ out'.op = "getitem"
      => /\ Observed(xaxis', shape[1]) = Observed(xaxis, shape[1])
         /\ Observed(yaxis', shape[2]) = Observed(yaxis, shape[2])
    ]_vars

-----------------------------------------------------------------------------
(* C13 *)

\* C13: with an irregular index cached on the column axis, self[i] and
\* self[i, r] for a row i and a column range r return a vector whose index is
\* the column index, sliced by r.
C13_RowOfIrregularColumns ==
  [][ ( /\ out'.op = "getitem"
        /\ out'.arg.x.kind = "int"
        /\ out'.arg.x.i < shape[1]
        /\ out'.arg.y.kind \in {"none", "slice"}
        /\ Irregular(yaxis) )
      => /\ out'.ok
         /\ res'.kind = "Series"
         /\ Cached(res'.xaxis)
         /\ The(res'.xaxis.yindex).value
              = IF out'.arg.y.kind = "none" THEN The(yaxis.yindex).value
                ELSE SliceIndex(The(yaxis.yindex), out'.arg.y).value
    ]_vars

-----------------------------------------------------------------------------
(* C14 *)

\* The start and the step of a slice, 0 and 1 when absent.
StartOf(sl) == IF Has(sl.start) THEN The(sl.start) ELSE 0
StepFactor(sl) == IF Has(sl.step) THEN The(sl.step) ELSE 1

\* C14: self[rows, a:b:k] is a matrix whose column axis comes from the
\* source's column axis: without a cached column index its origin is
\* colOrigin + a*colStep and its step colStep*k; with one, its index is the
\* cached index sliced by a:b:k.  (With a cached index, for slices that do
\* not select exactly one column.)
C14_ColumnRangeOfMatrix ==
  [][ ( /\ out'.op = "getitem"
        /\ out'.arg.x.kind = "slice"
        /\ out'.arg.y.kind = "slice"
        /\ Cached(yaxis) => Extent(ny, out'.arg.y) # 1 )
      => /\ out'.ok
         /\ res'.kind = "Array2D"
         /\ ~Cached(yaxis)
            => /\ Origin(res'.yaxis)
                    = Origin(yaxis) + StartOf(out'.arg.y) * StepOf(yaxis)
               /\ StepOk(res'.yaxis)
               /\ StepOf(res'.yaxis) = StepOf(yaxis) * StepFactor(out'.arg.y)
         /\ Cached(yaxis)
            => /\ Cached(res'.yaxis)
               /\ The(res'.yaxis.yindex).value
                    = SliceIndex(The(yaxis.yindex), out'.arg.y).value
    ]_vars

-----------------------------------------------------------------------------
(* C15 *)

\* A setOrigin(v) or setStep(d) with the number that is stored.
Unchanging(a, o) ==
  \/ /\ o.op = "setOrigin"
     /\ o.arg.kind = "bare"
     /\ Has(a.y0)
     /\ o.arg.value = The(a.y0).value
  \/ /\ o.op = "setStep"
     /\ o.arg.kind = "bare"
     /\ Has(a.dy)
     /\ o.arg.value = The(a.dy).value

\* C15: with an index cached on the y axis, setOrigin(v) with the stored
\* origin or setStep(d) with the stored step leaves the cached index in place:
\* getIndex() returns the same sequence, and getStep() on an irregular index
\* still fails.
C15_UnchangedValueKeepsIndex ==
  [][ (Cached(yaxis) /\ Unchanging(yaxis, out'))
      => /\ out'.ok
         /\ yaxis'.yindex = yaxis.yindex
         /\ IndexOk(yaxis')
         /\ IndexOf(yaxis') = The(yaxis.yindex).value
         /\ StepOk(yaxis') = StepOk(yaxis)
         /\ Irregular(yaxis) => ~StepOk(yaxis')
    ]_vars

C15_Witness ==
  /\ out.op = "setStep"
  /\ out.arg.kind = "bare"
  /\ out.had
  /\ Cached(yaxis)
  /\ The(yaxis.dy).value = out.arg.value

-----------------------------------------------------------------------------
(* C16 *)

\* The units of the fields that are stored on an axis.
StoredUnits(a) ==
  {The(a.y0).unit : i \in (IF Has(a.y0) THEN {1} ELSE {})}
    \cup {The(a.dy).unit : i \in (IF Has(a.dy) THEN {1} ELSE {})}
    \cup {The(a.yindex).unit : i \in (IF Has(a.yindex) THEN {1} ELSE {})}

\* C16: the stored origin, the stored step and the cached index of the y axis
\* are in one unit, whatever numbers and unit-tagged values the setters were
\* handed.
C16_UnitsAgree ==
  Built => Cardinality(StoredUnits(yaxis)) <= 1

-----------------------------------------------------------------------------
(* C17 *)

\* C17: on a y axis of resolved unit U, setStep(n) with a bare number n
\* returns and makes getStep() n in U, as setOrigin(n) makes getOrigin() n in U.
C17_BareStepInAxisUnit ==
  [][ /\ (out'.op = "setOrigin" /\ out'.arg.kind = "bare")
         => /\ out'.ok
            /\ y0_get(yaxis').ret = Quantity(out'.arg.value, yunit(yaxis))
      /\ (out'.op = "setStep" /\ out'.arg.kind = "bare")
         => /\ out'.ok
            /\ dy_get(yaxis').ok
            /\ dy_get(yaxis').ret = Quantity(out'.arg.value, yunit(yaxis))
    ]_vars

-----------------------------------------------------------------------------
(* C18 *)

\* repr(v) of a small natural number.
Repr(v) == <<"0", "1", "2", "3", "4", "5", "6", "7", "8", "9">>[v + 1]

\* template % v for a template of the form before \o "%r" \o after.
PercentR(before, after, v) == before \o Repr(v) \o after

\* C18: when valueAt(x, y) finds no match, the error names the axis and the
\* coordinate that was asked for: x and the x axis when x is missing, y and
\* the y axis when x is found and y is missing.
C18_NotFoundNamesValue ==
  (out.op = "valueAt" /\ ~out.ok /\ out.err \in {XNotFound, YNotFound})
  => \/ out.err = PercentR("Value ", " not found in array xindex", out.arg.x)
     \/ out.err = PercentR("Value ", " not found in array yindex", out.arg.y)

-----------------------------------------------------------------------------
(* C19 *)

\* C19: whenever an index is cached on the y axis, getOrigin() is its first
\* coordinate, and a getStep() that returns on an axis of extent >= 2 is the
\* difference of its first two, whatever setters (None included) and getters
\* were called.  (For an index of the length of the axis.)
C19_CachedIndexAgrees ==
  (Built /\ Cached(yaxis) /\ Len(The(yaxis.yindex).value) = ny)
  => /\ Origin(yaxis) = The(yaxis.yindex).value[1]
     /\ (StepOk(yaxis) /\ ny >= 2)
        => StepOf(yaxis)
             = The(yaxis.yindex).value[2] - The(yaxis.yindex).value[1]

-----------------------------------------------------------------------------
(* C20 *)

\* The copy of the array on which getIndex() has been called on the y axis.
Materialized == [Self EXCEPT !.yaxis = yindex_get(yaxis, ny).ax]

\* What a client sees of the result of a slice: whether it returned, and the
\* kind, extent and axes of what it returned.
Seen(r) ==
  [ok |-> r.ok,
   kind |-> r.res.kind,
   value |-> r.res.value,
   shape |-> r.res.shape,
   x |-> IF r.res.kind \in {"Series", "Array2D"}
         THEN Some(Observed(r.res.xaxis, r.res.shape[1])) ELSE Absent,
   y |-> IF r.res.kind = "Array2D"
         THEN Some(Observed(r.res.yaxis, r.res.shape[2])) ELSE Absent]

SpanSeen(r) == [ok |-> r.ok, ret |-> r.ret]

\* C20: on regular axes, span() and every slice give the same outcome on the
\* array and on its copy with the y index materialized.
C20_MaterializationIsTransparent ==
  (~Holding /\ ~Cached(yaxis) /\ IndexOk(yaxis))
  => /\ SpanSeen(yspan(yaxis, ny)) = SpanSeen(yspan(Materialized.yaxis, ny))
     /\ \A x \in XComponents(shape[1]), y \in YComponents(ny) :
          Seen(getitem(Self, x, y)) = Seen(getitem(Materialized, x, y))

====
